---- MODULE Spec2Model ----
(***************************************************************************)
(* EnglishMasterAI: the in-memory store (server/storage.ts), the request   *)
(* handlers of server/routes.ts (the registerRoutes that starts at line    *)
(* 288) and the Mistral evaluation adapter the handlers import.            *)
(*                                                                         *)
(* JavaScript values: numbers are integers; null, undefined and NaN are    *)
(* three integers at the low end of the 32-bit range that no request and   *)
(* no service answer uses as a number, so that a field can hold a number,  *)
(* null or undefined and `x || d` can be computed.  Dates (createdAt,      *)
(* lastTestDate) are not modelled.                                         *)
(***************************************************************************)
EXTENDS Integers, Sequences, FiniteSets, TLC

\* ---------------------------------------------------------------- bounds
\* number of TestResults the store may hold before submissions stop
MaxResults == 2
\* number of UserProgress records the store may hold
MaxProgress == 3
\* user ids the requests name: 1..MaxUserId
MaxUserId == 1
\* number of audio uploads multer may have written
MaxUploads == 1
\* number of tests the progression rule is applied to in SpecRule
MaxRuleTests == 3

\* ------------------------------------------------------- JavaScript values
NULL == -2147483647
UNDEFINED == -2147483646
\* Number(s) of a string that is not a number
NAN == -2147483645

\* JavaScript truthiness of a number, null or undefined
Truthy(x) == x \notin {0, NULL, UNDEFINED}

\* x || d
Or(x, d) == IF Truthy(x) THEN x ELSE d

\* Math.max(a, b)
Max(a, b) == IF a >= b THEN a ELSE b

\* Math.round(n / d) for d > 0: the nearest integer, halves rounded up
RoundDiv(n, d) == (2 * n + d) \div (2 * d)

\* { ...a, ...b }
Spread(a, b) ==
  [k \in (DOMAIN a) \cup (DOMAIN b) |-> IF k \in DOMAIN b THEN b[k] ELSE a[k]]

\* Array.from(new Set([...a, ...b])): a, then the elements of b not yet seen
RECURSIVE Dedup(_)
Dedup(s) ==
  IF s = <<>> THEN <<>>
  ELSE LET r == Dedup(SubSeq(s, 1, Len(s) - 1))
           x == s[Len(s)]
       IN IF \E i \in 1..Len(r) : r[i] = x THEN r ELSE Append(r, x)

\* ------------------------------------------------------------ shared/schema
DifficultyLevels == <<"beginner", "intermediate", "advanced", "expert">>

PROGRESSION_THRESHOLD == 80

\* the columns of insertTestResultSchema (testResults without id, createdAt)
TestResultColumns ==
  {"userId", "categoryId", "overallScore", "pronunciationScore",
   "fluencyScore", "vocabularyScore", "grammarScore", "listeningScore",
   "cefrLevel", "strengths", "improvements", "recommendations", "feedback",
   "testDuration"}

\* notNull integer columns: the key must be present and hold a number
RequiredNumberColumns ==
  {"overallScore", "pronunciationScore", "fluencyScore", "vocabularyScore",
   "grammarScore"}

\* insertTestResultSchema.parse accepts the body
SchemaAccepts(body) ==
  /\ TestResultColumns \subseteq DOMAIN body
  /\ \A c \in RequiredNumberColumns : body[c] \notin {NULL, UNDEFINED}

\* insertTestResultSchema.parse(body) for an accepted body: a z.object keeps
\* the keys of the schema and strips every other key of the input
insertTestResultSchemaParse(body) == [c \in TestResultColumns |-> body[c]]

\* ------------------------------------------------------------------- state
VARIABLES
  prompts,            \* MemStorage.prompts: id -> TestPrompt
  testResults,        \* MemStorage.testResults: id -> TestResult
  resultIdCounter,    \* MemStorage.resultIdCounter
  progressRecords,    \* MemStorage.progressRecords: id -> UserProgress
  progressIdCounter,  \* MemStorage.progressIdCounter
  uploads,            \* the files in the uploads directory
  uploadCounter,      \* number of files multer has written so far
  lastReq,            \* the request handled last
  lastResp,           \* the response sent to it
  responsesSent,      \* number of responses sent to the request handled last
  promptIdCounter,    \* MemStorage.promptIdCounter
  users,              \* MemStorage.users: id -> User
  userIdCounter,      \* MemStorage.userIdCounter
  categories,         \* MemStorage.categories: id -> TestCategory
  categoryIdCounter,  \* MemStorage.categoryIdCounter
  testSubmissions,    \* MemStorage.testSubmissions: id -> TestSubmission
  submissionIdCounter,\* MemStorage.submissionIdCounter
  learningResources,  \* MemStorage.learningResources: id -> LearningResource
  resourceIdCounter   \* MemStorage.resourceIdCounter

\* the part of the store no route handler writes after start-up
memVars == <<promptIdCounter, users, userIdCounter, categories,
             categoryIdCounter, testSubmissions, submissionIdCounter,
             learningResources, resourceIdCounter>>

\* the useRecorder hook of the client and the browser objects it drives
VARIABLES
  isRecording,        \* useState: isRecording
  recordingState,     \* useState: recordingState
  recordingTime,      \* useState: recordingTime
  audioBlob,          \* useState: audioBlob, NULL or the size of the blob
  error,              \* useState: error, NULL or the kind of the Error
  mediaRecorderRef,   \* useRef: NULL or the number of a recorder
  streamRef,          \* useRef: NULL or the number of a stream
  audioChunksRef,     \* useRef: the sizes of the chunks collected
  timerIntervalRef,   \* useRef: NULL or the handle of the interval
  intervals,          \* number of intervals the window is running
  recorders,          \* one entry per startRecording call that got past
                      \* the MediaRecorder check: its stream, its recorder
  stopTimeouts,       \* pending setTimeout callbacks of stopRecording
  startedSinceReset,  \* history: startRecording was called after the last
                      \* call of resetRecording by the component
  alertShown,         \* the handler that ran last called window.alert
  mediaRecorderSupported  \* window.MediaRecorder is defined

hookVars == <<isRecording, recordingState, recordingTime, audioBlob, error,
              mediaRecorderRef, streamRef, audioChunksRef, timerIntervalRef,
              intervals, recorders, stopTimeouts, startedSinceReset,
              alertShown, mediaRecorderSupported>>

\* the requests whose handlers are followed from one await to the next
VARIABLES
  inflight            \* one entry per request received: the position of its
                      \* handler, its locals and its answer

\* the test flow of the client: the state of TestProvider, and of the TestTab
\* that is mounted while the Test tab is shown
VARIABLES
  currentTab,         \* TestContext useState: currentTab
  currentQuestion,    \* TestContext useState: currentQuestion
  clientTestResults,  \* TestContext useState: testResults (the overallScore
                      \* of each entry)
  testCompleted,      \* TestContext useState: testCompleted
  recordingComplete,  \* TestTab useState: recordingComplete, with a recorded
                      \* audioBlob to submit
  mutations,          \* the mutations in flight: the question and the TestTab
                      \* they were started from, and their stage
  mutationCount       \* number of mutations started so far

flowVars == <<currentTab, currentQuestion, clientTestResults, testCompleted,
              recordingComplete, mutations, mutationCount>>

\* what the handlers that run in one step and the hook leave alone
otherVars == <<inflight, flowVars>>

vars == <<prompts, testResults, resultIdCounter, progressRecords,
          progressIdCounter, uploads, uploadCounter, lastReq, lastResp,
          responsesSent, memVars, hookVars, otherVars>>

storeVars == <<prompts, testResults, resultIdCounter, progressRecords,
               progressIdCounter>>

\* ------------------------------------------------------------- seeded data
\* the difficulty of the prompts initializeTestPrompts creates, in order
defaultPrompts ==
  <<"beginner", "beginner", "intermediate", "intermediate", "advanced",
    "expert", "beginner", "intermediate", "advanced", "beginner",
    "intermediate", "beginner", "intermediate", "advanced", "expert",
    "intermediate", "advanced", "expert", "intermediate", "advanced">>

\* the category level -> category id map built from the four categories
levelOfDifficulty(d) ==
  CASE d = "beginner" -> 1
    [] d = "intermediate" -> 2
    [] d = "advanced" -> 3
    [] OTHER -> 4

\* the CEFR level of the categories initializeTestPrompts creates, in order
defaultCategories == <<"A2", "B1", "B2", "C1">>

\* initializeTestPrompts on the empty store: createCategory for each default
initializeCategories ==
  [id \in 1..Len(defaultCategories) |->
     [id |-> id, level |-> defaultCategories[id], isActive |-> TRUE]]

\* initializeTestPrompts on the empty store: createPrompt for each default
initializeTestPrompts ==
  [id \in 1..Len(defaultPrompts) |->
     [id |-> id,
      categoryId |-> levelOfDifficulty(defaultPrompts[id]),
      difficulty |-> defaultPrompts[id]]]

\* ------------------------------------------------------------- MemStorage
\* getPrompt(id): the prompt, or undefined
HasPrompt(id) == id \in DOMAIN prompts

\* getUserProgress(userId): the first record (in insertion order) of the user
ProgressIdsOf(userId) ==
  {i \in DOMAIN progressRecords : progressRecords[i].userId = userId}

HasUserProgress(userId) == ProgressIdsOf(userId) # {}

getUserProgress(userId) ==
  progressRecords[CHOOSE i \in ProgressIdsOf(userId) :
                    \A j \in ProgressIdsOf(userId) : i <= j]

\* createTestResult(insertResult): the record stored under the next id
createTestResult(id, r) ==
  [id |-> id,
   userId |-> Or(r.userId, NULL),
   categoryId |-> Or(r.categoryId, NULL),
   overallScore |-> r.overallScore,
   pronunciationScore |-> r.pronunciationScore,
   fluencyScore |-> r.fluencyScore,
   vocabularyScore |-> r.vocabularyScore,
   grammarScore |-> r.grammarScore,
   listeningScore |-> Or(r.listeningScore, NULL),
   cefrLevel |-> r.cefrLevel,
   strengths |-> r.strengths,
   improvements |-> r.improvements,
   recommendations |-> r.recommendations,
   feedback |-> r.feedback,
   testDuration |-> Or(r.testDuration, NULL)]

\* createUserProgress(insertProgress): the record stored under the next id
createUserProgress(id, p) ==
  Spread(p,
    [id |-> id,
     userId |-> Or(p.userId, NULL),
     testsCompleted |-> Or(p.testsCompleted, 0),
     averageScore |-> Or(p.averageScore, 0),
     currentCefrLevel |-> p.currentCefrLevel,
     strengths |-> p.strengths,
     improvementAreas |-> p.improvementAreas,
     totalPracticeTime |-> Or(p.totalPracticeTime, 0)])

\* updateUserProgress(userId, progressData): the store after the call
updateUserProgress(userId, progressData) ==
  IF ~HasUserProgress(userId) THEN progressRecords
  ELSE LET progress == getUserProgress(userId)
       IN [progressRecords EXCEPT ![progress.id] = Spread(progress, progressData)]

\* ---------------------------------------------------------------- requests
\* a JSON body for POST /api/submit-test-results; promptId is a key the
\* schema does not have and is sent only when p # UNDEFINED
ResultBody(u, overall, sub, listening, duration, p) ==
  LET cols == [userId |-> u,
               categoryId |-> UNDEFINED,
               overallScore |-> overall,
               pronunciationScore |-> sub,
               fluencyScore |-> sub,
               vocabularyScore |-> sub,
               grammarScore |-> sub,
               listeningScore |-> listening,
               cefrLevel |-> "B1",
               strengths |-> <<"clear ideas">>,
               improvements |-> <<"verb tenses">>,
               recommendations |-> <<"practice">>,
               feedback |-> "ok",
               testDuration |-> duration]
  IN IF p = UNDEFINED THEN cols ELSE Spread(cols, [promptId |-> p])

\* promptId values a body may carry: none, a prompt of each tier, an id no
\* prompt has
PromptIdInputs == {UNDEFINED, 1, 3, 5, 6, 99}

\* bodies of a user's test at a tier, below and at the threshold
ProgressBodies ==
  {ResultBody(u, s, 70, UNDEFINED, 60, p) :
     u \in 1..MaxUserId, s \in {79, 80}, p \in PromptIdInputs}

\* bodies with falsy, missing and out-of-range values
EdgeBodies ==
  {ResultBody(0, 50, 70, UNDEFINED, 60, UNDEFINED),
   ResultBody(UNDEFINED, 50, 70, NULL, NULL, UNDEFINED),
   ResultBody(1, 150, 70, UNDEFINED, 60, UNDEFINED),
   ResultBody(1, 50, -5, UNDEFINED, 60, UNDEFINED),
   ResultBody(1, 0, 0, 0, 0, UNDEFINED),
   ResultBody(1, 100, 100, 7, 60, UNDEFINED),
   ResultBody(1, UNDEFINED, 70, UNDEFINED, 60, UNDEFINED)}

Bodies == ProgressBodies \cup EdgeBodies

\* req.params.userId after Number()
UserIdParams == (0..MaxUserId) \cup {NAN}

\* ------------------------------------------- POST /api/submit-test-results
\* lines 612-626: the difficulty the handler scores the result under
DifficultyOf(testResultData) ==
  LET promptId == IF "promptId" \in DOMAIN testResultData
                  THEN testResultData.promptId ELSE 0
  IN IF Truthy(promptId) /\ HasPrompt(promptId)
     THEN prompts[promptId].difficulty
     ELSE DifficultyLevels[1]

\* TierUpdate with the unlocked tier overwritten by the tier of the test
\* whenever the score is below the threshold
TierUpdate_overwrites(userProgress, overallScore, difficulty) ==
  IF overallScore >= PROGRESSION_THRESHOLD
  THEN IF userProgress.highestDifficultyUnlocked = DifficultyLevels[1]
       THEN [highestDifficultyUnlocked |-> DifficultyLevels[2]]
       ELSE <<>>
  ELSE [highestDifficultyUnlocked |-> difficulty]

\* lines 638-665: the per-tier score and the unlock of the next tier
TierUpdate(userProgress, overallScore, difficulty) ==
  LET unlock(from, to) ==
        IF overallScore >= PROGRESSION_THRESHOLD
           /\ userProgress.highestDifficultyUnlocked = from
        THEN [highestDifficultyUnlocked |-> to]
        ELSE <<>>
  IN CASE difficulty = DifficultyLevels[1] ->
            Spread([beginnerScore |->
                      Max(Or(userProgress.beginnerScore, 0), overallScore)],
                   unlock(DifficultyLevels[1], DifficultyLevels[2]))
       [] difficulty = DifficultyLevels[2] ->
            Spread([intermediateScore |->
                      Max(Or(userProgress.intermediateScore, 0), overallScore)],
                   unlock(DifficultyLevels[2], DifficultyLevels[3]))
       [] difficulty = DifficultyLevels[3] ->
            Spread([advancedScore |->
                      Max(Or(userProgress.advancedScore, 0), overallScore)],
                   unlock(DifficultyLevels[3], DifficultyLevels[4]))
       [] difficulty = DifficultyLevels[4] ->
            [expertScore |->
               Max(Or(userProgress.expertScore, 0), overallScore)]
       [] OTHER -> <<>>

\* lines 605-665: updatedProgress for an existing record
UpdatedProgress(userProgress, testResultData, difficulty) ==
  LET testsCompleted == Or(userProgress.testsCompleted, 0) + 1
      averageScore == Or(userProgress.averageScore, 0)
      previousTestsCompleted == Or(userProgress.testsCompleted, 0)
      totalScore == averageScore * previousTestsCompleted
                      + testResultData.overallScore
  IN Spread([testsCompleted |-> testsCompleted,
             averageScore |-> RoundDiv(totalScore, testsCompleted),
             currentCefrLevel |-> testResultData.cefrLevel,
             strengths |-> Dedup(userProgress.strengths
                                   \o testResultData.strengths),
             improvementAreas |-> Dedup(userProgress.improvementAreas
                                          \o testResultData.improvements)],
            TierUpdate(userProgress, testResultData.overallScore, difficulty))

\* lines 589-603: the record of a user's first submission
FirstProgress(testResultData) ==
  [userId |-> testResultData.userId,
   testsCompleted |-> 1,
   averageScore |-> testResultData.overallScore,
   currentCefrLevel |-> testResultData.cefrLevel,
   strengths |-> testResultData.strengths,
   improvementAreas |-> testResultData.improvements,
   totalPracticeTime |-> 0,
   highestDifficultyUnlocked |-> DifficultyLevels[1],
   beginnerScore |-> 0,
   intermediateScore |-> 0,
   advancedScore |-> 0,
   expertScore |-> 0]

\* lines 582-680: the handler of one request, from the parse to the answer
HandleSubmitTestResults(body) ==
  /\ lastReq' = [endpoint |-> "submit-test-results", body |-> body]
  /\ responsesSent' = 1
  /\ UNCHANGED <<prompts, uploads, uploadCounter, memVars, hookVars, otherVars>>
  /\ IF ~SchemaAccepts(body)
     THEN /\ lastResp' = [status |-> 500]
          /\ UNCHANGED <<testResults, resultIdCounter, progressRecords,
                         progressIdCounter>>
     ELSE LET testResultData == insertTestResultSchemaParse(body)
              testResult == createTestResult(resultIdCounter, testResultData)
              userId == testResultData.userId
          IN /\ testResults' = testResults @@ (resultIdCounter :> testResult)
             /\ resultIdCounter' = resultIdCounter + 1
             /\ lastResp' = [status |-> 200, body |-> testResult]
             /\ IF ~Truthy(userId)
                THEN UNCHANGED <<progressRecords, progressIdCounter>>
                ELSE IF ~HasUserProgress(userId)
                THEN /\ progressIdCounter <= MaxProgress
                     /\ progressRecords' = progressRecords @@
                          (progressIdCounter :>
                             createUserProgress(progressIdCounter,
                                                FirstProgress(testResultData)))
                     /\ progressIdCounter' = progressIdCounter + 1
                ELSE /\ progressRecords' =
                          updateUserProgress(userId,
                            UpdatedProgress(getUserProgress(userId),
                                            testResultData,
                                            DifficultyOf(testResultData)))
                     /\ UNCHANGED progressIdCounter

SubmitTestResults(body) ==
  /\ resultIdCounter <= MaxResults
  /\ HandleSubmitTestResults(body)

\* ------------------------------------------- GET /api/user-progress/:userId
\* lines 353-367: the record created when the user has none
EmptyProgress(userId) ==
  [userId |-> userId,
   testsCompleted |-> 0,
   averageScore |-> 0,
   currentCefrLevel |-> "A2",
   strengths |-> <<>>,
   improvementAreas |-> <<>>,
   totalPracticeTime |-> 0,
   highestDifficultyUnlocked |-> DifficultyLevels[1],
   beginnerScore |-> 0,
   intermediateScore |-> 0,
   advancedScore |-> 0,
   expertScore |-> 0]

\* the JSON answer for a record, were advanced marked unlocked only while
\* it is the highest tier unlocked
ProgressResponse_exactTier(userProgress) ==
  [userId |-> userProgress.userId,
   highestDifficultyUnlocked |-> userProgress.highestDifficultyUnlocked,
   unlockedLevels |->
     [beginner |-> TRUE,
      intermediate |->
        userProgress.highestDifficultyUnlocked # DifficultyLevels[1],
      advanced |->
        userProgress.highestDifficultyUnlocked = DifficultyLevels[3],
      expert |-> userProgress.highestDifficultyUnlocked = DifficultyLevels[4]],
   levelScores |->
     [beginner |-> userProgress.beginnerScore,
      intermediate |-> userProgress.intermediateScore,
      advanced |-> userProgress.advancedScore,
      expert |-> userProgress.expertScore]]

\* lines 371-386: the JSON answer for a record
ProgressResponse(userProgress) ==
  [userId |-> userProgress.userId,
   highestDifficultyUnlocked |-> userProgress.highestDifficultyUnlocked,
   unlockedLevels |->
     [beginner |-> TRUE,
      intermediate |->
        userProgress.highestDifficultyUnlocked # DifficultyLevels[1],
      advanced |->
        userProgress.highestDifficultyUnlocked
          \in {DifficultyLevels[3], DifficultyLevels[4]},
      expert |-> userProgress.highestDifficultyUnlocked = DifficultyLevels[4]],
   levelScores |->
     [beginner |-> userProgress.beginnerScore,
      intermediate |-> userProgress.intermediateScore,
      advanced |-> userProgress.advancedScore,
      expert |-> userProgress.expertScore]]

GetUserProgress(userId) ==
  /\ lastReq' = [endpoint |-> "user-progress", userId |-> userId]
  /\ responsesSent' = 1
  /\ UNCHANGED <<prompts, testResults, resultIdCounter, uploads,
                 uploadCounter, memVars, hookVars, otherVars>>
  /\ IF userId = NAN
     THEN /\ lastResp' = [status |-> 400]
          /\ UNCHANGED <<progressRecords, progressIdCounter>>
     ELSE IF HasUserProgress(userId)
     THEN /\ lastResp' = [status |-> 200,
                          body |-> ProgressResponse(getUserProgress(userId))]
          /\ UNCHANGED <<progressRecords, progressIdCounter>>
     ELSE LET created == createUserProgress(progressIdCounter,
                                            EmptyProgress(userId))
          IN /\ progressIdCounter <= MaxProgress
             /\ progressRecords' = progressRecords @@ (progressIdCounter :> created)
             /\ progressIdCounter' = progressIdCounter + 1
             /\ lastResp' = [status |-> 200, body |-> ProgressResponse(created)]

\* TestContext.tsx 38-42: the first render of TestProvider
InitFlow ==
  /\ currentTab = "intro"
  /\ currentQuestion = 0
  /\ clientTestResults = <<>>
  /\ testCompleted = FALSE
  /\ recordingComplete = FALSE
  /\ mutations = {}
  /\ mutationCount = 0

\* no request has been received, and the client has just been loaded
InitOther == inflight = <<>> /\ InitFlow

\* the hook after its first render: lines 17-27
InitHook ==
  /\ isRecording = FALSE
  /\ recordingState = "inactive"
  /\ recordingTime = 0
  /\ audioBlob = NULL
  /\ error = NULL
  /\ mediaRecorderRef = NULL
  /\ streamRef = NULL
  /\ audioChunksRef = <<>>
  /\ timerIntervalRef = NULL
  /\ intervals = 0
  /\ recorders = <<>>
  /\ stopTimeouts = 0
  /\ startedSinceReset = FALSE
  /\ alertShown = FALSE

\* ------------------------------------------------------------ specification
\* the server once registerRoutes has run on a new MemStorage
InitServer ==
  /\ prompts = initializeTestPrompts
  /\ testResults = <<>>
  /\ resultIdCounter = 1
  /\ progressRecords = <<>>
  /\ progressIdCounter = 1
  /\ uploads = {}
  /\ uploadCounter = 0
  /\ lastReq = [endpoint |-> "none"]
  /\ lastResp = [status |-> 0]
  /\ responsesSent = 0
  /\ promptIdCounter = Len(defaultPrompts) + 1
  /\ users = <<>>
  /\ userIdCounter = 1
  /\ categories = initializeCategories
  /\ categoryIdCounter = Len(defaultCategories) + 1
  /\ testSubmissions = <<>>
  /\ submissionIdCounter = 1
  /\ learningResources = <<>>
  /\ resourceIdCounter = 1

Init ==
  /\ InitServer
  /\ InitHook
  /\ InitOther
  /\ mediaRecorderSupported = TRUE

NextStore ==
  \/ \E body \in Bodies : SubmitTestResults(body)
  \/ \E userId \in UserIdParams : GetUserProgress(userId)

\* the store and the two endpoints that read and write user progress
SpecStore == Init /\ [][NextStore]_vars

\* ------------------------------------------------------- hosted AI services
\* what the speech-to-text service does on a call: fails, answers without
\* text, answers with text
SttOutcomes == {"error", "no text", "text"}

\* what the hosted LLM does on a call: the call fails, the content is not
\* JSON, the content is the JSON value null, or the content is a JSON object
\* whose score fields hold these numbers (UNDEFINED: the field is missing)
LlmOutcomes ==
  {[kind |-> k, overallScore |-> 0, vocabularyScore |-> 0, grammarScore |-> 0,
    fluencyScore |-> 0, pronunciationScore |-> 0] :
     k \in {"error", "unparseable", "null"}}
  \cup
  {[kind |-> "json", overallScore |-> o, vocabularyScore |-> v,
    grammarScore |-> v, fluencyScore |-> f, pronunciationScore |-> v] :
     o \in {UNDEFINED, 85, 150, -20}, v \in {70}, f \in {0, 90}}

\* transcribeAudio(audioFilePath): the text, '' when the service gave none;
\* a failure of the service is rethrown
transcribeAudio(stt) ==
  CASE stt = "error" -> [threw |-> TRUE, value |-> ""]
    [] stt = "no text" -> [threw |-> FALSE, value |-> ""]
    [] OTHER -> [threw |-> FALSE, value |-> "hello world"]

\* the TestResult analyzeSpokenEnglish returns when it gives up
CannedResult(score) ==
  [overallScore |-> score, vocabularyScore |-> score, grammarScore |-> score,
   fluencyScore |-> score, pronunciationScore |-> score]

\* analyzeSpokenEnglish(transcript, prompt): never throws
analyzeSpokenEnglish(llm) ==
  CASE llm.kind = "error" -> CannedResult(50)
    [] llm.kind = "unparseable" -> CannedResult(60)
    [] llm.kind = "null" -> CannedResult(50)
    [] OTHER ->
         [overallScore |-> Or(llm.overallScore, 0),
          vocabularyScore |-> Or(llm.vocabularyScore, 0),
          grammarScore |-> Or(llm.grammarScore, 0),
          fluencyScore |-> Or(llm.fluencyScore, 0),
          pronunciationScore |-> Or(llm.pronunciationScore, 0)]

\* analyzeSpeechWithLeMUR(audioFilePath, prompt) of the Mistral adapter: it
\* transcribes the file again (a failure there is replaced by a canned
\* transcript), analyses the transcript and renames the fields
analyzeSpeechWithLeMUR(stt, llm) ==
  LET analysis == analyzeSpokenEnglish(llm)
  IN [threw |-> FALSE,
      value |-> [overall |-> analysis.overallScore,
                 grammar |-> analysis.grammarScore,
                 vocabulary |-> analysis.vocabularyScore,
                 fluency |-> Or(analysis.fluencyScore, 0),
                 pronunciation |-> Or(analysis.pronunciationScore, 0)]]

\* --------------------------------------------------- POST /api/submit-audio
\* lines 430-446 without pronunciationScore
EvaluationBody_noPronunciation(evaluation) ==
  [overallScore |-> evaluation.overall,
   vocabularyScore |-> evaluation.vocabulary,
   grammarScore |-> evaluation.grammar,
   phraseScore |-> RoundDiv(evaluation.vocabulary + evaluation.grammar, 2),
   fluencyScore |-> Or(evaluation.fluency, evaluation.pronunciation)]

\* lines 430-446 and 510-522: the evaluation object built from the adapter's
\* answer (which has no phrase field)
EvaluationBody(evaluation) ==
  [overallScore |-> evaluation.overall,
   vocabularyScore |-> evaluation.vocabulary,
   grammarScore |-> evaluation.grammar,
   phraseScore |-> RoundDiv(evaluation.vocabulary + evaluation.grammar, 2),
   fluencyScore |-> Or(evaluation.fluency, evaluation.pronunciation),
   pronunciationScore |-> Or(evaluation.pronunciation, evaluation.fluency)]

\* lines 453-464, 527-538 and 555-566: the handlers' constant scores
fallbackEvaluation ==
  [overallScore |-> 75, vocabularyScore |-> 70, grammarScore |-> 80,
   phraseScore |-> 75, fluencyScore |-> 75, pronunciationScore |-> 75]

\* Number(req.body.promptId) of the multipart field / JSON value
PromptIdParams == {NAN, 1, 99}

\* lines 415-477: the answer once the prompt is found
AudioResponse(analyze, stt, stt2, llm) ==
  LET transcript == transcribeAudio(stt)
      evaluation == analyzeSpeechWithLeMUR(stt2, llm)
  IN IF transcript.threw THEN [status |-> 500]
     ELSE IF ~analyze
     THEN [status |-> 200, body |-> [transcript |-> transcript.value]]
     ELSE IF evaluation.threw
     THEN [status |-> 200,
           body |-> [transcript |-> transcript.value,
                     evaluation |-> fallbackEvaluation,
                     fallback |-> TRUE]]
     ELSE [status |-> 200,
           body |-> [transcript |-> transcript.value,
                     evaluation |-> EvaluationBody(evaluation.value)]]

\* lines 478-488 with the try/catch around unlinkSync left out: a failure
\* of the unlink leaves the finally as an exception
CleanupEscapes_uncaught(unlinkFails) == unlinkFails

\* lines 478-488: does an exception leave the finally block?  The unlink
\* runs inside its own try/catch, which logs the failure and goes on.
CleanupEscapes(unlinkFails) == FALSE

\* lines 415-492: the responses sent once the prompt is found: the one of
\* the inner try unless transcription threw, and the 500 of the outer catch
\* when an exception reaches it
AudioResponsesSent(stt, unlinkFails) ==
  LET transcript == transcribeAudio(stt)
  IN (IF transcript.threw THEN 0 ELSE 1)
     + (IF transcript.threw \/ CleanupEscapes(unlinkFails) THEN 1 ELSE 0)

\* multer stores the uploaded file, then the handler runs; the file is
\* unlinked in the finally of the block that starts at line 415
SubmitAudio(hasFile, promptId, analyze, stt, stt2, llm, unlinkFails) ==
  LET file == uploadCounter + 1
      written == IF hasFile THEN uploads \cup {file} ELSE uploads
  IN /\ hasFile => uploadCounter < MaxUploads
     /\ uploadCounter' = IF hasFile THEN file ELSE uploadCounter
     /\ lastReq' = [endpoint |-> "submit-audio", hasFile |-> hasFile,
                    promptId |-> promptId, analyze |-> analyze,
                    stt |-> stt, stt2 |-> stt2, llm |-> llm,
                    unlinkFails |-> unlinkFails, file |-> file]
     /\ UNCHANGED <<storeVars, memVars, hookVars, otherVars>>
     /\ IF ~hasFile
        THEN lastResp' = [status |-> 400] /\ uploads' = written
             /\ responsesSent' = 1
        ELSE IF promptId = NAN
        THEN lastResp' = [status |-> 400] /\ uploads' = written
             /\ responsesSent' = 1
        ELSE IF ~HasPrompt(promptId)
        THEN lastResp' = [status |-> 404] /\ uploads' = written
             /\ responsesSent' = 1
        ELSE /\ lastResp' = AudioResponse(analyze, stt, stt2, llm)
             /\ responsesSent' = AudioResponsesSent(stt, unlinkFails)
             /\ uploads' = IF unlinkFails THEN written ELSE written \ {file}

\* ------------------------------------------------------ POST /api/evaluate
Evaluate(transcript, promptId, hasAudioFilePath, stt2, llm) ==
  /\ lastReq' = [endpoint |-> "evaluate", transcript |-> transcript,
                 promptId |-> promptId, hasAudioFilePath |-> hasAudioFilePath,
                 stt2 |-> stt2, llm |-> llm]
  /\ UNCHANGED <<storeVars, uploads, uploadCounter, memVars, hookVars, otherVars>>
  /\ responsesSent' = 1
  /\ IF promptId = NAN \/ ~HasPrompt(promptId)
     THEN lastResp' = [status |-> 404]
     ELSE IF hasAudioFilePath
     THEN LET evaluation == analyzeSpeechWithLeMUR(stt2, llm)
          IN lastResp' =
               IF evaluation.threw
               THEN [status |-> 200,
                     body |-> Spread(fallbackEvaluation, [fallback |-> TRUE])]
               ELSE [status |-> 200, body |-> EvaluationBody(evaluation.value)]
     ELSE IF transcript = ""
     THEN lastResp' = [status |-> 400]
     ELSE lastResp' = [status |-> 200, body |-> fallbackEvaluation]

NextAudio ==
  \/ \E hasFile \in BOOLEAN, promptId \in PromptIdParams, analyze \in BOOLEAN,
        stt \in SttOutcomes, stt2 \in SttOutcomes, llm \in LlmOutcomes,
        unlinkFails \in BOOLEAN :
       SubmitAudio(hasFile, promptId, analyze, stt, stt2, llm, unlinkFails)
  \/ \E transcript \in {"", "hello world"}, promptId \in PromptIdParams,
        hasAudioFilePath \in BOOLEAN, stt2 \in SttOutcomes,
        llm \in LlmOutcomes :
       Evaluate(transcript, promptId, hasAudioFilePath, stt2, llm)

\* the two endpoints that call the hosted services
SpecAudio == Init /\ [][NextAudio]_vars

\* ------------------------------------------------------ progression claims
\* position of a tier in beginner < intermediate < advanced < expert
TierIndex(d) == CHOOSE i \in 1..Len(DifficultyLevels) : DifficultyLevels[i] = d

\* the tier a user has unlocked: beginner while the user has no record
HighestOf(userId) ==
  IF HasUserProgress(userId)
  THEN getUserProgress(userId).highestDifficultyUnlocked
  ELSE DifficultyLevels[1]

\* the tier of the prompt a submitted body names (beginner when it names none)
TierOfBody(body) ==
  IF "promptId" \in DOMAIN body /\ HasPrompt(body.promptId)
  THEN prompts[body.promptId].difficulty
  ELSE DifficultyLevels[1]

\* this step handled a POST /api/submit-test-results that stored its result
SubmitStored ==
  /\ lastReq'.endpoint = "submit-test-results"
  /\ resultIdCounter' = resultIdCounter + 1

\* C1: a stored submission of user u with overallScore >= 80, obtained on a
\* prompt of the tier T the user has unlocked (beginner when the user has no
\* record yet), T below expert, leaves the user with the tier after T unlocked.
C1_UnlockOnPass ==
  [][\A u \in 1..MaxUserId :
       (/\ SubmitStored
        /\ lastReq'.body.userId = u
        /\ lastReq'.body.overallScore >= PROGRESSION_THRESHOLD
        /\ TierOfBody(lastReq'.body) = HighestOf(u)
        /\ TierIndex(HighestOf(u)) < Len(DifficultyLevels))
       => HighestOf(u)' = DifficultyLevels[TierIndex(HighestOf(u)) + 1]]_vars

\* C2: a POST /api/submit-test-results changes a user's unlocked tier only
\* when overallScore >= 80 and the tier of the submitted result is the tier
\* the user has unlocked.
C2_ChangeOnlyOnPassAtTier ==
  [][\A u \in 1..MaxUserId :
       (lastReq'.endpoint = "submit-test-results" /\ HighestOf(u)' # HighestOf(u))
       => /\ lastReq'.body.overallScore >= PROGRESSION_THRESHOLD
          /\ TierOfBody(lastReq'.body) = HighestOf(u)]_vars

\* C3: no request moves the unlocked tier of a progress record, or of a
\* user, to a lower tier.
C3_UnlockMonotonic ==
  [][/\ \A i \in DOMAIN progressRecords :
          TierIndex(progressRecords'[i].highestDifficultyUnlocked)
            >= TierIndex(progressRecords[i].highestDifficultyUnlocked)
     /\ \A u \in 1..MaxUserId :
          TierIndex(HighestOf(u)') >= TierIndex(HighestOf(u))]_vars

\* a user has moved up a tier and has submitted a failed test afterwards
C3_Witness ==
  /\ lastReq.endpoint = "submit-test-results"
  /\ lastResp.status = 200
  /\ lastReq.body.userId \in 1..MaxUserId
  /\ lastReq.body.overallScore < PROGRESSION_THRESHOLD
  /\ HighestOf(lastReq.body.userId) = DifficultyLevels[2]

\* ------------------------------------------------------ the progression rule
\* The rule of lines 605-668 on its own: a stored record with any of the four
\* tiers unlocked, updated for a test of any score at any difficulty.  The
\* handlers themselves score every result as a beginner result (the parsed
\* body has no promptId), so through them a record never gets past
\* intermediate; here the rule is exercised on all four tiers.
RuleScores == {0, 79, 80, 100}

InitRule ==
  /\ prompts = initializeTestPrompts
  /\ testResults = <<>>
  /\ resultIdCounter = 1
  /\ \E d \in 1..Len(DifficultyLevels) :
       progressRecords =
         <<createUserProgress(1,
             Spread(EmptyProgress(1),
                    [highestDifficultyUnlocked |-> DifficultyLevels[d]]))>>
  /\ progressIdCounter = 2
  /\ uploads = {}
  /\ uploadCounter = 0
  /\ lastReq = [endpoint |-> "none"]
  /\ lastResp = [status |-> 0]
  /\ responsesSent = 0
  /\ promptIdCounter = Len(defaultPrompts) + 1
  /\ users = <<>>
  /\ userIdCounter = 1
  /\ categories = initializeCategories
  /\ categoryIdCounter = Len(defaultCategories) + 1
  /\ testSubmissions = <<>>
  /\ submissionIdCounter = 1
  /\ learningResources = <<>>
  /\ resourceIdCounter = 1
  /\ InitHook
  /\ InitOther
  /\ mediaRecorderSupported = TRUE

\* lines 605-668 for user 1, a test result with this score and this difficulty
ApplyRule(overallScore, difficulty) ==
  LET testResultData ==
        insertTestResultSchemaParse(
          ResultBody(1, overallScore, 70, UNDEFINED, 60, UNDEFINED))
  IN /\ getUserProgress(1).testsCompleted < MaxRuleTests
     /\ progressRecords' =
          updateUserProgress(1,
            UpdatedProgress(getUserProgress(1), testResultData, difficulty))
     /\ lastReq' = [endpoint |-> "rule", overallScore |-> overallScore,
                    difficulty |-> difficulty]
     /\ UNCHANGED <<prompts, testResults, resultIdCounter, progressIdCounter,
                    uploads, uploadCounter, lastResp, responsesSent,
                    memVars, hookVars, otherVars>>

NextRule ==
  \/ \E overallScore \in RuleScores, d \in 1..Len(DifficultyLevels) :
       ApplyRule(overallScore, DifficultyLevels[d])
  \/ GetUserProgress(1)

SpecRule == InitRule /\ [][NextRule]_vars

\* C4: expert is terminal: a record that has expert unlocked keeps expert
\* unlocked through every update, whatever the score and the difficulty.
C4_ExpertTerminal ==
  [][\A i \in DOMAIN progressRecords :
       progressRecords[i].highestDifficultyUnlocked = DifficultyLevels[4]
       => progressRecords'[i].highestDifficultyUnlocked = DifficultyLevels[4]]_vars

\* an update at or above the threshold was applied to a record that has
\* expert unlocked
C4_Witness ==
  /\ lastReq.endpoint = "rule"
  /\ lastReq.overallScore >= PROGRESSION_THRESHOLD
  /\ getUserProgress(1).highestDifficultyUnlocked = DifficultyLevels[4]
  /\ getUserProgress(1).expertScore >= PROGRESSION_THRESHOLD

\* ----------------------------------------------------- stored test results
ScoreColumns == RequiredNumberColumns

NumberColumns ==
  RequiredNumberColumns \cup {"userId", "categoryId", "listeningScore",
                              "testDuration"}

\* C5: every stored TestResult has its five scores within 0..100.
C5_StoredScoresInRange ==
  \A i \in DOMAIN testResults :
    \A c \in ScoreColumns : testResults[i][c] \in 0..100

\* C9: the TestResult stored for an accepted body, read back by its id
\* (getTestResult), has the submitted value in every column the body gave.
C9_RoundTrip ==
  (lastReq.endpoint = "submit-test-results" /\ lastResp.status = 200)
  => LET stored == testResults[lastResp.body.id]
         body == lastReq.body
     IN /\ \A c \in NumberColumns :
             body[c] # UNDEFINED => stored[c] = body[c]
        /\ \A c \in TestResultColumns \ NumberColumns : stored[c] = body[c]

\* ------------------------------------------------------- evaluation claims
FiveScoreFields ==
  {"overallScore", "vocabularyScore", "grammarScore", "fluencyScore",
   "pronunciationScore"}

\* the last request was a POST /api/submit-audio that reached the handler's
\* transcription call
AudioTranscribed ==
  /\ lastReq.endpoint = "submit-audio"
  /\ lastReq.hasFile
  /\ HasPrompt(lastReq.promptId)

\* ... with analyze=true and a transcription that succeeded
AudioAnalysed ==
  /\ AudioTranscribed
  /\ lastReq.analyze
  /\ lastReq.stt # "error"

\* the last request was a POST /api/evaluate that called the adapter
EvaluateAnalysed ==
  /\ lastReq.endpoint = "evaluate"
  /\ HasPrompt(lastReq.promptId)
  /\ lastReq.hasAudioFilePath

\* the last response carries an evaluation object
HasEvaluation ==
  /\ lastResp.status = 200
  /\ \/ lastReq.endpoint = "evaluate"
     \/ lastReq.endpoint = "submit-audio" /\ "evaluation" \in DOMAIN lastResp.body

\* the evaluation object of the last response
ResponseEvaluation ==
  IF lastReq.endpoint = "evaluate" THEN lastResp.body
  ELSE lastResp.body.evaluation

\* the last response is marked fallback: true
MarkedFallback ==
  /\ lastResp.status = 200
  /\ "fallback" \in DOMAIN lastResp.body
  /\ lastResp.body.fallback = TRUE

\* C6: every evaluation object the two endpoints return has its five scores
\* within 0..100, whatever numbers the hosted model answered.
C6_ScoresClamped ==
  HasEvaluation =>
    \A f \in FiveScoreFields : ResponseEvaluation[f] \in 0..100

\* C7: when the hosted LLM answers with text that is not JSON, the caller
\* receives a score object and the response is marked fallback: true.
C7_UnparseableMarkedFallback ==
  ((AudioAnalysed \/ EvaluateAnalysed) /\ lastReq.llm.kind = "unparseable")
  => /\ HasEvaluation
     /\ FiveScoreFields \subseteq DOMAIN ResponseEvaluation
     /\ MarkedFallback

\* a call to a hosted service failed while the last request was handled
AiCallFailed ==
  \/ AudioTranscribed /\ lastReq.stt = "error"
  \/ /\ AudioAnalysed \/ EvaluateAnalysed
     /\ lastReq.llm.kind = "error" \/ lastReq.stt2 = "error"

\* C8: when a hosted AI call fails during POST /api/submit-audio or POST
\* /api/evaluate, the answer is not an error status but a fallback score
\* object marked fallback: true.
C8_FailureAnsweredWithFallback ==
  AiCallFailed => (HasEvaluation /\ MarkedFallback)

ValidationError ==
  \/ /\ lastReq.endpoint = "submit-audio"
     /\ ~lastReq.hasFile \/ lastReq.promptId = NAN
  \/ /\ lastReq.endpoint = "evaluate"
     /\ \/ lastReq.promptId = NAN
        \/ /\ HasPrompt(lastReq.promptId)
           /\ ~lastReq.hasAudioFilePath
           /\ lastReq.transcript = ""
  \/ /\ lastReq.endpoint = "submit-test-results"
     /\ ~SchemaAccepts(lastReq.body)
  \/ /\ lastReq.endpoint = "user-progress"
     /\ lastReq.userId = NAN

\* the request handled last is well formed and names a prompt that is not
\* in the store
UnknownPrompt ==
  \/ /\ lastReq.endpoint = "submit-audio"
     /\ lastReq.hasFile
     /\ lastReq.promptId # NAN
     /\ ~HasPrompt(lastReq.promptId)
  \/ /\ lastReq.endpoint = "evaluate"
     /\ lastReq.promptId # NAN
     /\ ~HasPrompt(lastReq.promptId)

\* C11: a request that fails validation is answered 400, and a request
\* with a well-formed promptId that matches no prompt is answered 404.
C11_ValidationAnswered400 ==
  /\ ValidationError => lastResp.status = 400
  /\ UnknownPrompt => lastResp.status = 404

\* C13: once a POST /api/submit-audio whose file was written to the uploads
\* directory has been answered, the file is no longer there (the file
\* system doing what unlink asks), whatever the outcome of the request.
C13_UploadRemoved ==
  (/\ lastReq.endpoint = "submit-audio"
   /\ lastReq.hasFile
   /\ ~lastReq.unlinkFails)
    => lastReq.file \notin uploads

\* ------------------------------------------------ the read-only endpoints
\* MemStorage.getPromptsByDifficulty: the prompts of one difficulty, in
\* insertion order
getPromptsByDifficulty(difficulty) ==
  SelectSeq(prompts, LAMBDA p : p.difficulty = difficulty)

\* req.query.difficulty / req.params.difficulty; "" is the absent parameter
DifficultyQueries == {"", "beginner", "master"}

\* Object.values(DifficultyLevels).includes(difficulty)
IsDifficultyLevel(difficulty) ==
  \E i \in 1..Len(DifficultyLevels) : DifficultyLevels[i] = difficulty

\* everything a handler that only reads the store leaves alone
readOnlyVars == <<storeVars, uploads, uploadCounter, memVars, hookVars, otherVars>>

\* GET /api/prompts
GetPrompts(difficulty) ==
  /\ lastReq' = [endpoint |-> "prompts", difficulty |-> difficulty]
  /\ lastResp' = [status |-> 200,
                  body |-> IF difficulty # ""
                           THEN getPromptsByDifficulty(difficulty)
                           ELSE prompts]
  /\ responsesSent' = 1
  /\ UNCHANGED readOnlyVars

\* GET /api/prompts/difficulty/:difficulty
GetPromptsOfDifficulty(difficulty) ==
  /\ lastReq' = [endpoint |-> "prompts/difficulty", difficulty |-> difficulty]
  /\ lastResp' = IF ~IsDifficultyLevel(difficulty)
                 THEN [status |-> 400]
                 ELSE [status |-> 200,
                       body |-> getPromptsByDifficulty(difficulty)]
  /\ responsesSent' = 1
  /\ UNCHANGED readOnlyVars

\* GET /api/categories
GetCategories ==
  /\ lastReq' = [endpoint |-> "categories"]
  /\ lastResp' = [status |-> 200, body |-> categories]
  /\ responsesSent' = 1
  /\ UNCHANGED readOnlyVars

\* one body the schema accepts and one it rejects
ApiBodies ==
  {ResultBody(1, 85, 70, UNDEFINED, 60, 1),
   ResultBody(1, UNDEFINED, 70, UNDEFINED, 60, UNDEFINED)}

\* what the model lets the analysis service do when every endpoint is served
ApiLlmOutcomes == {llm \in LlmOutcomes : llm.kind \in {"error", "null"}}

NextApi ==
  \/ \E difficulty \in DifficultyQueries : GetPrompts(difficulty)
  \/ \E difficulty \in DifficultyQueries \ {""} :
       GetPromptsOfDifficulty(difficulty)
  \/ GetCategories
  \/ \E userId \in UserIdParams : GetUserProgress(userId)
  \/ \E body \in ApiBodies : SubmitTestResults(body)
  \/ \E hasFile \in BOOLEAN, promptId \in PromptIdParams, analyze \in BOOLEAN,
        stt \in SttOutcomes, llm \in ApiLlmOutcomes, unlinkFails \in BOOLEAN :
       SubmitAudio(hasFile, promptId, analyze, stt, "text", llm, unlinkFails)
  \/ \E transcript \in {"", "hello world"}, promptId \in PromptIdParams,
        hasAudioFilePath \in BOOLEAN, llm \in ApiLlmOutcomes :
       Evaluate(transcript, promptId, hasAudioFilePath, "text", llm)

\* every endpoint registerRoutes registers
SpecApi == Init /\ [][NextApi]_vars

ApiEndpoints ==
  {"prompts", "prompts/difficulty", "categories", "user-progress",
   "submit-audio", "evaluate", "submit-test-results"}

MaxCreates == 2

\* Map.prototype.set(id, v)
MapSet(m, id, v) ==
  [k \in DOMAIN m \cup {id} |-> IF k = id THEN v ELSE m[k]]

\* the counter after "const id = this.counter++", were the counter left
\* as it is
NextCounter_stuck(counter) == counter

\* the counter after "const id = this.counter++"
NextCounter(counter) == counter + 1

\* createUser(insertUser): the record stored under the next id
createUser(id, insertUser) ==
  Spread(insertUser,
         [id |-> id,
          displayName |-> Or(insertUser.displayName, NULL),
          email |-> Or(insertUser.email, NULL),
          profilePicture |-> Or(insertUser.profilePicture, NULL)])

\* createCategory(category): the record stored under the next id
createCategory(id, category) ==
  Spread(category,
         [id |-> id,
          isActive |-> IF category.isActive = UNDEFINED
                       THEN 1 ELSE category.isActive])

\* createPrompt(insertPrompt): the record stored under the next id
createPrompt(id, insertPrompt) ==
  Spread(insertPrompt,
         [id |-> id,
          categoryId |-> Or(insertPrompt.categoryId, NULL),
          difficulty |-> insertPrompt.difficulty,
          timeLimit |-> Or(insertPrompt.timeLimit, NULL)])

\* createTestSubmission(insertSubmission): the record stored under the next
\* id; promptId is stored as given, whatever the prompts map holds
createTestSubmission(id, insertSubmission) ==
  [id |-> id,
   testResultId |-> Or(insertSubmission.testResultId, NULL),
   promptId |-> Or(insertSubmission.promptId, NULL),
   responseTime |-> Or(insertSubmission.responseTime, NULL)]

\* createLearningResource(insertResource): the record stored under the
\* next id
createLearningResource(id, insertResource) ==
  Spread(insertResource,
         [id |-> id,
          durationMinutes |-> Or(insertResource.durationMinutes, NULL)])

\* the arguments of the store calls
InsertUsers ==
  {[username |-> "ann", displayName |-> UNDEFINED, email |-> UNDEFINED,
    profilePicture |-> UNDEFINED]}

InsertCategories == {[level |-> "A2", isActive |-> UNDEFINED]}

InsertPrompts ==
  {[categoryId |-> 1, difficulty |-> "beginner", timeLimit |-> 60]}

InsertResults == {insertTestResultSchemaParse(ResultBody(1, 85, 70, 0, 60, 1))}

SubmissionPromptIds == {1, 2}

InsertSubmissions ==
  {[testResultId |-> 1, promptId |-> p, responseTime |-> UNDEFINED] :
     p \in SubmissionPromptIds}

InsertProgress == {EmptyProgress(1)}

InsertResources == {[cefrLevel |-> "A2", durationMinutes |-> 15]}

\* what the interface never touches
serverVars == <<uploads, uploadCounter, lastReq, lastResp, responsesSent,
                hookVars, otherVars>>

CreateUser(insertUser) ==
  LET id == userIdCounter
  IN /\ userIdCounter <= MaxCreates
     /\ userIdCounter' = NextCounter(userIdCounter)
     /\ users' = MapSet(users, id, createUser(id, insertUser))
     /\ UNCHANGED <<storeVars, serverVars, promptIdCounter, categories,
                    categoryIdCounter, testSubmissions, submissionIdCounter,
                    learningResources, resourceIdCounter>>

\* updateUser(id, userData)
UpdateUser(id, userData) ==
  /\ id \in DOMAIN users
  /\ users' = MapSet(users, id, Spread(users[id], userData))
  /\ UNCHANGED <<storeVars, serverVars, promptIdCounter, userIdCounter,
                 categories, categoryIdCounter, testSubmissions,
                 submissionIdCounter, learningResources, resourceIdCounter>>

CreateCategory(category) ==
  LET id == categoryIdCounter
  IN /\ categoryIdCounter <= MaxCreates
     /\ categoryIdCounter' = NextCounter(categoryIdCounter)
     /\ categories' = MapSet(categories, id, createCategory(id, category))
     /\ UNCHANGED <<storeVars, serverVars, promptIdCounter, users,
                    userIdCounter, testSubmissions, submissionIdCounter,
                    learningResources, resourceIdCounter>>

CreatePrompt(insertPrompt) ==
  LET id == promptIdCounter
  IN /\ promptIdCounter <= MaxCreates
     /\ promptIdCounter' = NextCounter(promptIdCounter)
     /\ prompts' = MapSet(prompts, id, createPrompt(id, insertPrompt))
     /\ UNCHANGED <<testResults, resultIdCounter, progressRecords,
                    progressIdCounter, serverVars, users, userIdCounter,
                    categories, categoryIdCounter, testSubmissions,
                    submissionIdCounter, learningResources,
                    resourceIdCounter>>

CreateTestResult(insertResult) ==
  LET id == resultIdCounter
  IN /\ resultIdCounter <= MaxCreates
     /\ resultIdCounter' = NextCounter(resultIdCounter)
     /\ testResults' =
          MapSet(testResults, id, createTestResult(id, insertResult))
     /\ UNCHANGED <<prompts, progressRecords, progressIdCounter, serverVars,
                    memVars>>

CreateTestSubmission(insertSubmission) ==
  LET id == submissionIdCounter
  IN /\ submissionIdCounter <= MaxCreates
     /\ submissionIdCounter' = NextCounter(submissionIdCounter)
     /\ testSubmissions' =
          MapSet(testSubmissions, id,
                 createTestSubmission(id, insertSubmission))
     /\ UNCHANGED <<storeVars, serverVars, promptIdCounter, users,
                    userIdCounter, categories, categoryIdCounter,
                    learningResources, resourceIdCounter>>

CreateUserProgress(insertProgress) ==
  LET id == progressIdCounter
  IN /\ progressIdCounter <= MaxCreates
     /\ progressIdCounter' = NextCounter(progressIdCounter)
     /\ progressRecords' =
          MapSet(progressRecords, id, createUserProgress(id, insertProgress))
     /\ UNCHANGED <<prompts, testResults, resultIdCounter, serverVars,
                    memVars>>

CreateLearningResource(insertResource) ==
  LET id == resourceIdCounter
  IN /\ resourceIdCounter <= MaxCreates
     /\ resourceIdCounter' = NextCounter(resourceIdCounter)
     /\ learningResources' =
          MapSet(learningResources, id,
                 createLearningResource(id, insertResource))
     /\ UNCHANGED <<storeVars, serverVars, promptIdCounter, users,
                    userIdCounter, categories, categoryIdCounter,
                    testSubmissions, submissionIdCounter>>

\* new MemStorage(): seven empty maps, seven counters at 1
InitMem ==
  /\ prompts = <<>>
  /\ promptIdCounter = 1
  /\ users = <<>>
  /\ userIdCounter = 1
  /\ categories = <<>>
  /\ categoryIdCounter = 1
  /\ testResults = <<>>
  /\ resultIdCounter = 1
  /\ testSubmissions = <<>>
  /\ submissionIdCounter = 1
  /\ progressRecords = <<>>
  /\ progressIdCounter = 1
  /\ learningResources = <<>>
  /\ resourceIdCounter = 1
  /\ uploads = {}
  /\ uploadCounter = 0
  /\ lastReq = [endpoint |-> "none"]
  /\ lastResp = [status |-> 0]
  /\ responsesSent = 0
  /\ InitHook
  /\ InitOther
  /\ mediaRecorderSupported = TRUE

NextMem ==
  \/ \E insertUser \in InsertUsers : CreateUser(insertUser)
  \/ \E id \in 1..MaxCreates : UpdateUser(id, [username |-> "bob"])
  \/ \E category \in InsertCategories : CreateCategory(category)
  \/ \E insertPrompt \in InsertPrompts : CreatePrompt(insertPrompt)
  \/ \E insertResult \in InsertResults : CreateTestResult(insertResult)
  \/ \E insertSubmission \in InsertSubmissions :
       CreateTestSubmission(insertSubmission)
  \/ \E insertProgress \in InsertProgress : CreateUserProgress(insertProgress)
  \/ \E insertResource \in InsertResources :
       CreateLearningResource(insertResource)

\* the store driven through its interface, from the empty store
SpecMem == InitMem /\ [][NextMem]_vars

\* C14: every TestSubmission in the store has a promptId that is the id of
\* a stored TestPrompt.
C14_SubmissionPromptExists ==
  \A id \in DOMAIN testSubmissions :
    testSubmissions[id].promptId \in DOMAIN prompts

\* the step created a record in the collection: the map m became m2 with
\* one more key, the next integer, the record under it carries that id, and
\* every record that was there is as it was
Created(m, m2, counter, counter2) ==
  LET id == Cardinality(DOMAIN m) + 1
  IN /\ id = counter
     /\ counter2 = counter + 1
     /\ DOMAIN m2 = DOMAIN m \cup {id}
     /\ id \notin DOMAIN m
     /\ m2[id].id = id
     /\ \A k \in DOMAIN m : m2[k] = m[k]

\* the step created a record in the collection or moved its counter
Touched(m, m2, counter, counter2) ==
  DOMAIN m2 # DOMAIN m \/ counter2 # counter

\* C20: in every collection a create stores its record under an id that
\* was never assigned in that collection, the ids are 1, 2, 3, ... in the
\* order of creation, and the records already there stay as they were.
C20_FreshSequentialIds ==
  [][/\ Touched(users, users', userIdCounter, userIdCounter')
          => Created(users, users', userIdCounter, userIdCounter')
     /\ Touched(categories, categories', categoryIdCounter,
                categoryIdCounter')
          => Created(categories, categories', categoryIdCounter,
                     categoryIdCounter')
     /\ Touched(prompts, prompts', promptIdCounter, promptIdCounter')
          => Created(prompts, prompts', promptIdCounter, promptIdCounter')
     /\ Touched(testResults, testResults', resultIdCounter, resultIdCounter')
          => Created(testResults, testResults', resultIdCounter,
                     resultIdCounter')
     /\ Touched(testSubmissions, testSubmissions', submissionIdCounter,
                submissionIdCounter')
          => Created(testSubmissions, testSubmissions', submissionIdCounter,
                     submissionIdCounter')
     /\ Touched(progressRecords, progressRecords', progressIdCounter,
                progressIdCounter')
          => Created(progressRecords, progressRecords', progressIdCounter,
                     progressIdCounter')
     /\ Touched(learningResources, learningResources', resourceIdCounter,
                resourceIdCounter')
          => Created(learningResources, learningResources',
                     resourceIdCounter, resourceIdCounter')]_vars

\* every collection holds two records, created one after the other
C20_Witness ==
  /\ DOMAIN users = {1, 2}
  /\ DOMAIN categories = {1, 2}
  /\ DOMAIN prompts = {1, 2}
  /\ DOMAIN testResults = {1, 2}
  /\ DOMAIN testSubmissions = {1, 2}
  /\ DOMAIN progressRecords = {1, 2}
  /\ DOMAIN learningResources = {1, 2}
  /\ users[2].id = 2

\* ------------------------------------------------------ the recorder hook
\* startRecording calls, pending stopRecording timeouts, ticks counted
MaxStarts == 1
MaxStopTimeouts == 1
MaxTime == 1

\* the kinds of Error the hook stores
NoAudioDataError == 1
RecordingError == 2
NotAllowedError == 3
NotFoundError == 4
NotSupportedError == 5
MediaRecorderMissing == 6

\* Blob.size of a chunk the recorder delivers
ChunkSizes == {0, 1}

RECURSIVE SumSizes(_)
\* new Blob(chunks).size
SumSizes(chunks) ==
  IF chunks = <<>> THEN 0 ELSE Head(chunks) + SumSizes(Tail(chunks))

\* the hook's state and refs and the browser objects, as one record
Hook ==
  [isRecording |-> isRecording,
   recordingState |-> recordingState,
   recordingTime |-> recordingTime,
   audioBlob |-> audioBlob,
   error |-> error,
   mediaRecorderRef |-> mediaRecorderRef,
   streamRef |-> streamRef,
   audioChunksRef |-> audioChunksRef,
   timerIntervalRef |-> timerIntervalRef,
   intervals |-> intervals,
   recorders |-> recorders,
   stopTimeouts |-> stopTimeouts]

\* a startRecording call that waits for getUserMedia: no stream and no
\* recorder yet
NewCall ==
  [pc |-> "getUserMedia", state |-> "none", events |-> <<>>,
   hasReceivedData |-> FALSE, streamLive |-> FALSE, dataTimeout |-> FALSE]

\* clearInterval(timerIntervalRef.current); timerIntervalRef.current = null
clearTimer(h) ==
  IF h.timerIntervalRef # NULL
  THEN [h EXCEPT !.intervals = @ - 1, !.timerIntervalRef = NULL]
  ELSE h

\* MediaRecorder.stop() of a recorder that records: it is inactive at once,
\* its last dataavailable and its stop event are queued
RecorderStop(h, k) ==
  [h EXCEPT !.recorders[k].state = "inactive",
            !.recorders[k].events = @ \o <<"data", "stop">>]

\* lines 30-52
cleanup(h) ==
  LET h1 == clearTimer(h)
      h2 == IF /\ h1.mediaRecorderRef # NULL
               /\ h1.recorders[h1.mediaRecorderRef].state # "inactive"
            THEN RecorderStop(h1, h1.mediaRecorderRef)
            ELSE h1
      h3 == IF h2.streamRef # NULL
            THEN [h2 EXCEPT !.recorders[h2.streamRef].streamLive = FALSE,
                            !.streamRef = NULL]
            ELSE h2
  IN [h3 EXCEPT !.mediaRecorderRef = NULL]

\* lines 55-64 without the call of cleanup
resetRecording_noCleanup(h) ==
  [h EXCEPT !.audioChunksRef = <<>>,
            !.audioBlob = NULL,
            !.error = NULL,
            !.isRecording = FALSE,
            !.recordingState = "inactive",
            !.recordingTime = 0]

\* lines 55-64
resetRecording(h) ==
  [cleanup(h) EXCEPT !.audioChunksRef = <<>>,
                     !.audioBlob = NULL,
                     !.error = NULL,
                     !.isRecording = FALSE,
                     !.recordingState = "inactive",
                     !.recordingTime = 0]

\* lines 72-92 with a timer that is never cleared
timerEffect_noCleanup(was, h) ==
  IF h.isRecording = was \/ ~h.isRecording
  THEN h
  ELSE [h EXCEPT !.timerIntervalRef = 1, !.intervals = @ + 1]

\* lines 72-92: the effect on [isRecording], run when the render after a
\* handler finds isRecording changed: the clean-up of the last run, then
\* the body
timerEffect(was, h) ==
  IF h.isRecording = was
  THEN h
  ELSE LET c == clearTimer(h)
       IN IF c.isRecording
          THEN [clearTimer(c) EXCEPT !.timerIntervalRef = 1,
                                     !.intervals = @ + 1]
          ELSE clearTimer(c)

\* lines 207-214 without the call of cleanup
startFailed_noCleanup(h, err) ==
  [h EXCEPT !.error = err,
            !.isRecording = FALSE,
            !.recordingState = "inactive"]

\* lines 207-214: the catch of startRecording, before the alert
startFailed(h, err) ==
  [cleanup(h) EXCEPT !.error = err,
                     !.isRecording = FALSE,
                     !.recordingState = "inactive"]

\* line 147 with every chunk kept
AcceptsChunk_any(size) == TRUE

\* line 147: event.data && event.data.size > 0
AcceptsChunk(size) == size > 0

\* lines 146-152
ondataavailable(h, k, size) ==
  IF AcceptsChunk(size)
  THEN [h EXCEPT !.recorders[k].hasReceivedData = TRUE,
                 !.audioChunksRef = Append(@, size)]
  ELSE h

\* lines 154-159
onstart(h) ==
  [h EXCEPT !.isRecording = TRUE,
            !.recordingState = "recording",
            !.recordingTime = 0]

\* lines 161-183
onstop(h, k) ==
  LET h1 == IF h.recorders[k].hasReceivedData /\ Len(h.audioChunksRef) > 0
            THEN [h EXCEPT !.audioBlob = SumSizes(h.audioChunksRef)]
            ELSE [h EXCEPT !.error = NoAudioDataError]
      h2 == IF h1.streamRef # NULL
            THEN [h1 EXCEPT !.recorders[h1.streamRef].streamLive = FALSE,
                            !.streamRef = NULL]
            ELSE h1
  IN [h2 EXCEPT !.isRecording = FALSE, !.recordingState = "inactive"]

\* lines 185-188
onerror(h) == [h EXCEPT !.error = RecordingError]

\* everything on the server
serverSide == <<storeVars, uploads, uploadCounter, lastReq, lastResp,
                responsesSent, memVars>>

\* the handler leaves the hook as h; React renders and runs the timer
\* effect before the next event is handled
Commit(h, alert) ==
  LET g == timerEffect(isRecording, h)
  IN /\ isRecording' = g.isRecording
     /\ recordingState' = g.recordingState
     /\ recordingTime' = g.recordingTime
     /\ audioBlob' = g.audioBlob
     /\ error' = g.error
     /\ mediaRecorderRef' = g.mediaRecorderRef
     /\ streamRef' = g.streamRef
     /\ audioChunksRef' = g.audioChunksRef
     /\ timerIntervalRef' = g.timerIntervalRef
     /\ intervals' = g.intervals
     /\ recorders' = g.recorders
     /\ stopTimeouts' = g.stopTimeouts
     /\ alertShown' = alert
     /\ UNCHANGED <<serverSide, mediaRecorderSupported, otherVars>>

\* startRecording up to its await: lines 95-114, and 207-230 when
\* window.MediaRecorder is missing
StartRecording ==
  /\ Len(recorders) < MaxStarts
  /\ startedSinceReset' = TRUE
  /\ LET h == resetRecording(Hook)
     IN IF ~mediaRecorderSupported
        THEN Commit(startFailed(h, MediaRecorderMissing),
                    TRUE)
        ELSE Commit([h EXCEPT !.recorders = Append(@, NewCall)],
                    FALSE)

\* getUserMedia resolves for call k: lines 116-205, and 207-230 when
\* setting the recorder up throws
GetUserMediaResolves(k, setupThrows) ==
  /\ k \in DOMAIN recorders
  /\ recorders[k].pc = "getUserMedia"
  /\ UNCHANGED startedSinceReset
  /\ LET h == [Hook EXCEPT !.streamRef = k,
                           !.recorders[k].streamLive = TRUE]
     IN IF setupThrows
        THEN Commit(startFailed([h EXCEPT !.recorders[k].pc = "failed"],
                                NotSupportedError),
                    TRUE)
        ELSE Commit([h EXCEPT !.mediaRecorderRef = k,
                              !.recorders[k].pc = "started",
                              !.recorders[k].state = "recording",
                              !.recorders[k].events = <<"start">>,
                              !.recorders[k].dataTimeout = TRUE],
                    FALSE)

\* getUserMedia rejects for call k: lines 207-230
GetUserMediaRejects(k, err) ==
  /\ k \in DOMAIN recorders
  /\ recorders[k].pc = "getUserMedia"
  /\ UNCHANGED startedSinceReset
  /\ Commit(startFailed([Hook EXCEPT !.recorders[k].pc = "failed"], err),
            TRUE)

\* the browser dispatches the next event of recorder k to its handler
RecorderEvent(k, size) ==
  /\ k \in DOMAIN recorders
  /\ recorders[k].events # <<>>
  /\ UNCHANGED startedSinceReset
  /\ LET e == Head(recorders[k].events)
         h == [Hook EXCEPT !.recorders[k].events = Tail(@)]
     IN CASE e = "start" -> Commit(onstart(h), FALSE)
          [] e = "data" ->
               Commit(ondataavailable(h, k, size), FALSE)
          [] e = "stop" -> size = 0 /\ Commit(onstop(h, k), FALSE)
          [] e = "error" ->
               size = 0 /\ Commit(onerror(h), FALSE)

\* lines 194-204: the timeout set after recorder.start
RequestDataTimeout(k) ==
  /\ k \in DOMAIN recorders
  /\ recorders[k].dataTimeout
  /\ UNCHANGED startedSinceReset
  /\ LET h == [Hook EXCEPT !.recorders[k].dataTimeout = FALSE]
     IN Commit(IF recorders[k].state = "recording"
               THEN [h EXCEPT !.recorders[k].events = Append(@, "data")]
               ELSE h,
               FALSE)

\* the recorder of call k fails while it records: the browser queues its
\* error event, its last dataavailable and its stop event
RecorderFails(k) ==
  /\ k \in DOMAIN recorders
  /\ recorders[k].state = "recording"
  /\ UNCHANGED startedSinceReset
  /\ Commit([Hook EXCEPT !.recorders[k].state = "inactive",
                         !.recorders[k].events = @ \o <<"error", "data", "stop">>],
            FALSE)

\* lines 234-268
StopRecording ==
  /\ UNCHANGED startedSinceReset
  /\ IF mediaRecorderRef = NULL
     THEN Commit(Hook, FALSE)
     ELSE IF recorders[mediaRecorderRef].state = "recording"
     THEN /\ stopTimeouts < MaxStopTimeouts
          /\ Commit([Hook EXCEPT
                       !.recordingState = "stopping",
                       !.recorders[mediaRecorderRef].events =
                          Append(@, "data"),
                       !.stopTimeouts = @ + 1],
                    FALSE)
     ELSE Commit([Hook EXCEPT !.isRecording = FALSE,
                              !.recordingState = "inactive"],
                 FALSE)

\* lines 248-253: the timeout set by stopRecording
StopTimeout ==
  /\ stopTimeouts > 0
  /\ UNCHANGED startedSinceReset
  /\ LET h == [Hook EXCEPT !.stopTimeouts = @ - 1]
     IN Commit(IF /\ mediaRecorderRef # NULL
                  /\ recorders[mediaRecorderRef].state = "recording"
               THEN RecorderStop(h, mediaRecorderRef)
               ELSE h,
               FALSE)

\* the component calls resetRecording
ResetRecording ==
  /\ startedSinceReset' = FALSE
  /\ Commit(resetRecording(Hook), FALSE)

\* lines 80-82: the interval fires
Tick ==
  /\ intervals > 0
  /\ recordingTime < MaxTime
  /\ UNCHANGED startedSinceReset
  /\ Commit([Hook EXCEPT !.recordingTime = @ + 1], FALSE)

InitRecorder ==
  /\ InitServer
  /\ InitHook
  /\ InitOther
  /\ mediaRecorderSupported \in BOOLEAN

NextRecorder ==
  \/ StartRecording
  \/ \E k \in 1..MaxStarts, setupThrows \in BOOLEAN :
       GetUserMediaResolves(k, setupThrows)
  \/ \E k \in 1..MaxStarts, err \in {NotAllowedError, NotFoundError} :
       GetUserMediaRejects(k, err)
  \/ \E k \in 1..MaxStarts, size \in ChunkSizes : RecorderEvent(k, size)
  \/ \E k \in 1..MaxStarts : RequestDataTimeout(k)
  \/ \E k \in 1..MaxStarts : RecorderFails(k)
  \/ StopRecording
  \/ StopTimeout
  \/ ResetRecording
  \/ Tick

\* the hook, the component that calls it and the browser
SpecRecorder == InitRecorder /\ [][NextRecorder]_vars

\* --------------------------------------------------------- recorder claims
\* the step hands an event of this kind to its handler
HandlesEvent(e) ==
  \E k \in DOMAIN recorders, size \in ChunkSizes :
    /\ recorders[k].events # <<>>
    /\ Head(recorders[k].events) = e
    /\ RecorderEvent(k, size)

\* the step is a startRecording that ends in its catch
StartFails ==
  \/ ~mediaRecorderSupported /\ StartRecording
  \/ \E k \in DOMAIN recorders : GetUserMediaResolves(k, TRUE)
  \/ \E k \in DOMAIN recorders, err \in {NotAllowedError, NotFoundError} :
       GetUserMediaRejects(k, err)

\* C15: recordingState moves only from inactive to recording on the start
\* event of a recorder (and not after a resetRecording that no
\* startRecording followed), from recording to stopping by stopRecording,
\* from stopping to inactive on the stop event, and from any state to
\* inactive by resetRecording or on a failure.
C15_Transitions ==
  [][recordingState' # recordingState =>
       \/ /\ recordingState = "inactive"
          /\ recordingState' = "recording"
          /\ HandlesEvent("start")
          /\ startedSinceReset
       \/ /\ recordingState = "recording"
          /\ recordingState' = "stopping"
          /\ StopRecording
       \/ /\ recordingState = "stopping"
          /\ recordingState' = "inactive"
          /\ HandlesEvent("stop")
       \/ /\ recordingState' = "inactive"
          /\ \/ ResetRecording
             \/ StartRecording
             \/ StartFails
             \/ HandlesEvent("stop") /\ error' # NULL]_vars

\* C16: when the stop event of a recorder has been handled, audioBlob is a
\* blob of size greater than 0 or error is set.
C16_StopYieldsBlobOrError ==
  [][HandlesEvent("stop") =>
       \/ audioBlob' # NULL /\ audioBlob' > 0
       \/ error' # NULL]_vars

\* a stop event was handled and produced a blob from the chunks collected
C16_Witness ==
  /\ audioBlob # NULL
  /\ error = NULL
  /\ audioChunksRef # <<>>
  /\ \E k \in DOMAIN recorders :
       recorders[k].state = "inactive" /\ recorders[k].hasReceivedData

\* C17: when resetRecording returns, the stream is released, no recorder
\* is held, the chunk list is empty, the interval is cleared, and the five
\* states are null, null, false, inactive and 0.
C17_ResetPostcondition ==
  [][ResetRecording =>
       /\ streamRef' = NULL
       /\ streamRef # NULL => ~recorders'[streamRef].streamLive
       /\ mediaRecorderRef' = NULL
       /\ audioChunksRef' = <<>>
       /\ timerIntervalRef' = NULL
       /\ intervals' = 0
       /\ audioBlob' = NULL
       /\ error' = NULL
       /\ ~isRecording'
       /\ recordingState' = "inactive"
       /\ recordingTime' = 0]_vars

\* resetRecording was called while a recorder recorded: the recorder was
\* stopped and its stream released, its stop event is still to come
C17_Witness ==
  /\ ~startedSinceReset
  /\ mediaRecorderRef = NULL
  /\ streamRef = NULL
  /\ intervals = 0
  /\ \E k \in DOMAIN recorders :
       /\ recorders[k].pc = "started"
       /\ recorders[k].state = "inactive"
       /\ ~recorders[k].streamLive
       /\ recorders[k].events # <<>>

\* C18: when startRecording fails, an alert is shown, error is set,
\* isRecording is false, recordingState is inactive, and neither a stream
\* nor a recorder is held.
C18_StartFailure ==
  [][StartFails =>
       /\ alertShown'
       /\ error' # NULL
       /\ ~isRecording'
       /\ recordingState' = "inactive"
       /\ streamRef' = NULL
       /\ mediaRecorderRef' = NULL
       /\ \A k \in DOMAIN recorders :
            recorders'[k].pc = "failed" => ~recorders'[k].streamLive]_vars

\* startRecording failed after it had obtained the stream
C18_Witness ==
  /\ alertShown
  /\ error = NotSupportedError
  /\ \E k \in DOMAIN recorders : recorders[k].pc = "failed"

\* an interval runs exactly while isRecording is true, and never two
TimerWhileRecording ==
  /\ intervals <= 1
  /\ (intervals = 1) <=> isRecording
  /\ (timerIntervalRef # NULL) <=> isRecording

MaxSeries == 3

SeriesScores == {0, 79, 80}

SeriesBodies ==
  {ResultBody(1, s, 50, 50, 30, p) : s \in SeriesScores, p \in {UNDEFINED, 3}}

SubmitSeries(body) ==
  /\ resultIdCounter <= MaxSeries
  /\ HandleSubmitTestResults(body)

NextSeries ==
  \/ \E body \in SeriesBodies : SubmitSeries(body)
  \/ GetUserProgress(1)

SpecSeries == Init /\ [][NextSeries]_vars

\* the ids of the stored results of a user
ResultIdsOf(userId) == {i \in DOMAIN testResults : testResults[i].userId = userId}

RECURSIVE SumOverall(_)
\* the sum of overallScore over a set of stored results
SumOverall(ids) ==
  IF ids = {} THEN 0
  ELSE LET i == CHOOSE j \in ids : TRUE
       IN testResults[i].overallScore + SumOverall(ids \ {i})

\* C22: once a user has submitted results, one request after another, the
\* averageScore of the user's progress record is the arithmetic mean of all
\* the overallScore values submitted for that user, rounded to the nearest
\* integer.
C22_AverageIsRoundedMean ==
  \A u \in 1..MaxUserId :
    (HasUserProgress(u) /\ ResultIdsOf(u) # {})
    => getUserProgress(u).averageScore
         = RoundDiv(SumOverall(ResultIdsOf(u)), Cardinality(ResultIdsOf(u)))

\* the per-tier score of a user for a tier: 0 while the user has no record
TierScoreOf(userId, d) ==
  IF ~HasUserProgress(userId) THEN 0
  ELSE LET userProgress == getUserProgress(userId)
       IN CASE d = DifficultyLevels[1] -> userProgress.beginnerScore
            [] d = DifficultyLevels[2] -> userProgress.intermediateScore
            [] d = DifficultyLevels[3] -> userProgress.advancedScore
            [] d = DifficultyLevels[4] -> userProgress.expertScore

\* C23: the per-tier scores of a user are the running maximum of the
\* overallScore of the user's stored results on prompts of that tier: a stored
\* submission raises the score of the tier of its prompt to its overallScore
\* when that is higher, and no request changes a per-tier score otherwise.
C23_TierScoreIsMaximum ==
  [][\A u \in 1..MaxUserId : \A i \in 1..Len(DifficultyLevels) :
       LET d == DifficultyLevels[i]
       IN TierScoreOf(u, d)' =
            IF SubmitStored /\ lastReq'.body.userId = u
               /\ TierOfBody(lastReq'.body) = d
            THEN Max(TierScoreOf(u, d), lastReq'.body.overallScore)
            ELSE TierScoreOf(u, d)]_vars

\* ------------------------------------------------------------- the seeding
\* lines 694 and 731: "existing.length === 0", the test that guards each half
\* of initializeTestPrompts, were the collection seeded whatever it holds
ShouldSeed_always(collection) == TRUE

\* lines 694 and 731: "existing.length === 0"
ShouldSeed(collection) == DOMAIN collection = {}

\* lines 734-735: categoryMap.get(level), the id the Map built from the stored
\* categories keeps for a level (the last one), or undefined
categoryMap(cats, level) ==
  LET ids == {i \in DOMAIN cats : cats[i].level = level}
  IN IF ids = {} THEN UNDEFINED
     ELSE CHOOSE i \in ids : \A j \in ids : j <= i

\* lines 689-1049: initializeTestPrompts on the store as it is: the four
\* categories are created when the store holds no category, the default
\* prompts (those whose level has a category) when it holds no prompt
InitializeTestPrompts ==
  LET c == categoryIdCounter
      n == IF ShouldSeed(categories) THEN Len(defaultCategories) ELSE 0
      cats == [id \in DOMAIN categories \cup (c..(c + n - 1)) |->
                 IF id >= c
                 THEN [id |-> id, level |-> defaultCategories[id - c + 1],
                       isActive |-> TRUE]
                 ELSE categories[id]]
      levelOf(d) == defaultCategories[levelOfDifficulty(d)]
      creatable == IF ShouldSeed(prompts)
                   THEN SelectSeq(defaultPrompts,
                                  LAMBDA d : Truthy(categoryMap(cats, levelOf(d))))
                   ELSE <<>>
      p == promptIdCounter
  IN /\ categories' = cats
     /\ categoryIdCounter' = c + n
     /\ prompts' = [id \in DOMAIN prompts \cup (p..(p + Len(creatable) - 1)) |->
                      IF id >= p
                      THEN [id |-> id,
                            categoryId |->
                              categoryMap(cats, levelOf(creatable[id - p + 1])),
                            difficulty |-> creatable[id - p + 1]]
                      ELSE prompts[id]]
     /\ promptIdCounter' = p + Len(creatable)
     /\ lastReq' = [endpoint |-> "initializeTestPrompts"]
     /\ UNCHANGED <<testResults, resultIdCounter, progressRecords,
                    progressIdCounter, uploads, uploadCounter, lastResp,
                    responsesSent, users, userIdCounter, testSubmissions,
                    submissionIdCounter, learningResources, resourceIdCounter,
                    hookVars, otherVars>>

\* lines 288-290: the endpoints are registered, and so served, once
\* initializeTestPrompts has run
RoutesRegistered == lastReq.endpoint # "none"

\* the initialisation, and one request or more to every endpoint
\* registerRoutes registers
NextSeed ==
  \/ InitializeTestPrompts
  \/ RoutesRegistered /\ GetPrompts("")
  \/ RoutesRegistered /\ GetPromptsOfDifficulty("beginner")
  \/ RoutesRegistered /\ GetCategories
  \/ RoutesRegistered /\ GetUserProgress(1)
  \/ \E body \in ApiBodies : RoutesRegistered /\ SubmitTestResults(body)
  \/ \E hasFile \in BOOLEAN, analyze \in BOOLEAN, stt \in SttOutcomes,
        llm \in ApiLlmOutcomes :
       /\ RoutesRegistered
       /\ SubmitAudio(hasFile, 1, analyze, stt, "text", llm, FALSE)
  \/ \E llm \in ApiLlmOutcomes :
       /\ RoutesRegistered
       /\ Evaluate("hello world", 1, FALSE, "text", llm)

\* the server from the construction of its MemStorage: the initialisation,
\* which may run again at any time, and every endpoint once it has run
SpecSeed == InitMem /\ [][NextSeed]_vars

\* C24: once the store is seeded, no request to any endpoint and no further
\* run of the initialisation adds, removes or changes a TestPrompt or a
\* TestCategory; the seeded store is the one registerRoutes leaves.
C24_SeedIsFrozen ==
  /\ [](RoutesRegistered => /\ prompts = initializeTestPrompts
                            /\ categories = initializeCategories)
  /\ [][RoutesRegistered => /\ prompts' = prompts
                            /\ categories' = categories
                            /\ promptIdCounter' = promptIdCounter
                            /\ categoryIdCounter' = categoryIdCounter]_vars

\* the initialisation has run again after a request stored a result and a
\* progress record
C24_Witness ==
  /\ lastReq.endpoint = "initializeTestPrompts"
  /\ resultIdCounter > 1
  /\ progressIdCounter > 1
  /\ DOMAIN prompts # {}

\* --------------------------------------------------- the unlocked levels
\* the users whose progress is requested: one with a record of any tier (the
\* record of InitRule) and one without a record
UnlockUserIds == {1, 2}

NextUnlock ==
  \/ \E overallScore \in RuleScores, d \in 1..Len(DifficultyLevels) :
       ApplyRule(overallScore, DifficultyLevels[d])
  \/ \E userId \in UnlockUserIds : GetUserProgress(userId)

SpecUnlock == InitRule /\ [][NextUnlock]_vars

\* C30: every answer of GET /api/user-progress/:userId carries the unlocked
\* tier of the user's record and marks a tier as unlocked exactly when it is
\* not above that tier in beginner < intermediate < advanced < expert; a user
\* without a record gets a new record, and an answer, with beginner unlocked.
C30_UnlockedLevels ==
  /\ []((lastReq.endpoint = "user-progress" /\ lastResp.status = 200)
        => /\ lastResp.body.highestDifficultyUnlocked
                = HighestOf(lastReq.userId)
           /\ \A i \in 1..Len(DifficultyLevels) :
                lastResp.body.unlockedLevels[DifficultyLevels[i]]
                  = (i <= TierIndex(lastResp.body.highestDifficultyUnlocked)))
  /\ [][\A u \in UnlockUserIds :
          (/\ ~HasUserProgress(u)
           /\ lastReq'.endpoint = "user-progress"
           /\ lastReq'.userId = u)
          => /\ HasUserProgress(u)'
             /\ getUserProgress(u)'.highestDifficultyUnlocked = DifficultyLevels[1]
             /\ lastResp'.status = 200
             /\ lastResp'.body.highestDifficultyUnlocked = DifficultyLevels[1]]_vars

\* the progress of a user who has expert unlocked was answered, after a user
\* without a record had been given one
C30_Witness ==
  /\ lastReq.endpoint = "user-progress"
  /\ lastReq.userId = 1
  /\ lastResp.status = 200
  /\ lastResp.body.highestDifficultyUnlocked = DifficultyLevels[4]
  /\ lastResp.body.unlockedLevels.advanced
  /\ HasUserProgress(2)

\* ------------------------------------------- handlers, one await at a time
\* POST /api/submit-test-results and GET /api/user-progress/:userId followed
\* from one await to the next.  A call of an async method of MemStorage runs
\* the method up to its first await at once; the caller goes on in a later
\* step, and the steps of the handlers of different requests may alternate.
MaxInflight == 3

\* the requests received: two results and the progress of user 1
AwaitBodies ==
  {ResultBody(1, s, 70, UNDEFINED, 60, UNDEFINED) : s \in {50, 80}}

AwaitUserIds == {1}

\* the locals of a handler that has not read anything yet
NewHandler ==
  [endpoint |-> "none", pc |-> "start", userId |-> UNDEFINED,
   testResultData |-> <<>>, found |-> FALSE, userProgress |-> <<>>,
   updatedProgress |-> <<>>, progress |-> <<>>, status |-> 0]

\* every variable but the store's results and progress records
awaitFrame ==
  <<prompts, uploads, uploadCounter, lastReq, lastResp, responsesSent,
    memVars, hookVars, flowVars>>

\* the next handler position after "userProgress = await getUserProgress()"
ReadUserProgress(h, userId) ==
  [h EXCEPT !.pc = "getUserProgress",
            !.found = HasUserProgress(userId),
            !.userProgress = IF HasUserProgress(userId)
                             THEN getUserProgress(userId) ELSE <<>>]

\* routes.ts 582-586: the body is parsed and storage.createTestResult called,
\* which stores the result before the handler awaits it
ReceiveSubmit(body) ==
  /\ Len(inflight) < MaxInflight
  /\ IF ~SchemaAccepts(body)
     THEN /\ inflight' = Append(inflight,
                           [NewHandler EXCEPT !.endpoint = "submit-test-results",
                                              !.pc = "done", !.status = 500])
          /\ UNCHANGED <<testResults, resultIdCounter>>
     ELSE LET testResultData == insertTestResultSchemaParse(body)
          IN /\ testResults' =
                  MapSet(testResults, resultIdCounter,
                         createTestResult(resultIdCounter, testResultData))
             /\ resultIdCounter' = NextCounter(resultIdCounter)
             /\ inflight' = Append(inflight,
                              [NewHandler EXCEPT
                                 !.endpoint = "submit-test-results",
                                 !.pc = "createTestResult",
                                 !.userId = testResultData.userId,
                                 !.testResultData = testResultData])
  /\ UNCHANGED <<progressRecords, progressIdCounter, awaitFrame>>

\* routes.ts 588-591: after createTestResult; without a userId the result is
\* answered, otherwise storage.getUserProgress reads the store
SubmitAfterCreateTestResult(k) ==
  LET h == inflight[k]
  IN /\ k \in DOMAIN inflight
     /\ h.endpoint = "submit-test-results" /\ h.pc = "createTestResult"
     /\ inflight' =
          [inflight EXCEPT ![k] =
             IF ~Truthy(h.userId)
             THEN [h EXCEPT !.pc = "done", !.status = 200]
             ELSE ReadUserProgress(h, h.userId)]
     /\ UNCHANGED <<storeVars, awaitFrame>>

\* routes.ts 593-668: after getUserProgress; with no record read,
\* storage.createUserProgress stores one; with a record read, updatedProgress
\* is computed from it and storage.updateUserProgress reads the store again
\* (storage.ts 291)
SubmitAfterGetUserProgress(k) ==
  LET h == inflight[k]
  IN /\ k \in DOMAIN inflight
     /\ h.endpoint = "submit-test-results" /\ h.pc = "getUserProgress"
     /\ IF ~h.found
        THEN /\ progressRecords' =
                  MapSet(progressRecords, progressIdCounter,
                         createUserProgress(progressIdCounter,
                                            FirstProgress(h.testResultData)))
             /\ progressIdCounter' = NextCounter(progressIdCounter)
             /\ inflight' = [inflight EXCEPT ![k].pc = "answer"]
        ELSE /\ inflight' =
                  [inflight EXCEPT ![k] =
                     [h EXCEPT
                        !.pc = "updateUserProgress",
                        !.updatedProgress =
                          UpdatedProgress(h.userProgress, h.testResultData,
                                          DifficultyOf(h.testResultData)),
                        !.progress = getUserProgress(h.userId)]]
             /\ UNCHANGED <<progressRecords, progressIdCounter>>
     /\ UNCHANGED <<prompts, testResults, resultIdCounter, awaitFrame>>

\* storage.ts 292-296: updateUserProgress after its own getUserProgress:
\* { ...progress, ...progressData } is stored under progress.id
UpdateAfterGetUserProgress(k) ==
  LET h == inflight[k]
  IN /\ k \in DOMAIN inflight
     /\ h.endpoint = "submit-test-results" /\ h.pc = "updateUserProgress"
     /\ progressRecords' =
          MapSet(progressRecords, h.progress.id,
                 Spread(h.progress, h.updatedProgress))
     /\ inflight' = [inflight EXCEPT ![k].pc = "answer"]
     /\ UNCHANGED <<prompts, testResults, resultIdCounter, progressIdCounter,
                    awaitFrame>>

\* routes.ts 675: res.json(testResult)
SubmitAnswer(k) ==
  LET h == inflight[k]
  IN /\ k \in DOMAIN inflight
     /\ h.endpoint = "submit-test-results" /\ h.pc = "answer"
     /\ inflight' = [inflight EXCEPT ![k].pc = "done", ![k].status = 200]
     /\ UNCHANGED <<storeVars, awaitFrame>>

\* routes.ts 343-349: the userId is read and storage.getUserProgress called
ReceiveGetUserProgress(userId) ==
  /\ Len(inflight) < MaxInflight
  /\ inflight' =
       Append(inflight,
              IF userId = NAN
              THEN [NewHandler EXCEPT !.endpoint = "user-progress",
                                      !.pc = "done", !.status = 400]
              ELSE ReadUserProgress(
                     [NewHandler EXCEPT !.endpoint = "user-progress",
                                        !.userId = userId], userId))
  /\ UNCHANGED <<storeVars, awaitFrame>>

\* routes.ts 351-387: after getUserProgress; with no record read,
\* storage.createUserProgress stores one; otherwise the record is answered
ProgressAfterGetUserProgress(k) ==
  LET h == inflight[k]
  IN /\ k \in DOMAIN inflight
     /\ h.endpoint = "user-progress" /\ h.pc = "getUserProgress"
     /\ IF ~h.found
        THEN /\ progressRecords' =
                  MapSet(progressRecords, progressIdCounter,
                         createUserProgress(progressIdCounter,
                                            EmptyProgress(h.userId)))
             /\ progressIdCounter' = NextCounter(progressIdCounter)
             /\ inflight' = [inflight EXCEPT ![k].pc = "answer"]
        ELSE /\ inflight' = [inflight EXCEPT ![k].pc = "done",
                                             ![k].status = 200]
             /\ UNCHANGED <<progressRecords, progressIdCounter>>
     /\ UNCHANGED <<prompts, testResults, resultIdCounter, awaitFrame>>

\* routes.ts 370-387: res.json of the record created
ProgressAnswer(k) ==
  LET h == inflight[k]
  IN /\ k \in DOMAIN inflight
     /\ h.endpoint = "user-progress" /\ h.pc = "answer"
     /\ inflight' = [inflight EXCEPT ![k].pc = "done", ![k].status = 200]
     /\ UNCHANGED <<storeVars, awaitFrame>>

NextAwait ==
  \/ \E body \in AwaitBodies : ReceiveSubmit(body)
  \/ \E userId \in AwaitUserIds : ReceiveGetUserProgress(userId)
  \/ \E k \in 1..MaxInflight : SubmitAfterCreateTestResult(k)
  \/ \E k \in 1..MaxInflight : SubmitAfterGetUserProgress(k)
  \/ \E k \in 1..MaxInflight : UpdateAfterGetUserProgress(k)
  \/ \E k \in 1..MaxInflight : SubmitAnswer(k)
  \/ \E k \in 1..MaxInflight : ProgressAfterGetUserProgress(k)
  \/ \E k \in 1..MaxInflight : ProgressAnswer(k)

SpecAwait == Init /\ [][NextAwait]_vars

\* every request received has been answered
AllAnswered == \A k \in DOMAIN inflight : inflight[k].pc = "done"

\* C21: when every request received has been answered, the testsCompleted of
\* the progress record of a user (of a user who has one record) is the number
\* of results stored for that user, however the steps of the handlers
\* alternated.
C21_TestsCompletedCountsResults ==
  AllAnswered
  => \A u \in 1..MaxUserId :
       Cardinality(ProgressIdsOf(u)) = 1
       => getUserProgress(u).testsCompleted = Cardinality(ResultIdsOf(u))

\* C25: the store holds at most one UserProgress record for a userId,
\* however the steps of the handlers alternated.
C25_OneProgressPerUser ==
  \A u \in 1..MaxUserId : Cardinality(ProgressIdsOf(u)) <= 1

\* ------------------------------------------- late events and late timeouts
\* C26: after resetRecording, and before startRecording is called again, a
\* dataavailable or stop event of a recorder (the one resetRecording stopped)
\* changes neither audioBlob, nor error, nor the chunk buffer.
C26_StaleEventsIgnored ==
  [][(/\ ~startedSinceReset
      /\ HandlesEvent("data") \/ HandlesEvent("stop"))
     => /\ audioBlob' = audioBlob
        /\ error' = error
        /\ audioChunksRef' = audioChunksRef]_vars

\* C27: when the timeout of stopRecording fires and finds a recorder to call
\* stop on (lines 251-253), that recorder is recording.
C27_TimeoutStopsRecordingOnly ==
  [][(StopTimeout /\ mediaRecorderRef # NULL)
     => recorders[mediaRecorderRef].state = "recording"]_vars

\* ------------------------------------------------- the client's test flow
\* prompts.length of the prompts Home hands to TestTab
NumPrompts == 2

\* the answers a user may submit in all
MaxSubmits == 3

\* what a mutation of TestTab may end with: a response with an evaluation,
\* a response with a transcript only, an error
MutationOutcomes == {"evaluation", "transcript", "error"}

\* everything but the client's test flow
flowFrame == <<serverSide, hookVars, inflight>>

\* TestContext.tsx 49-51 with testCompleted left as it is
resetTest_keepsCompleted(f) ==
  [f EXCEPT !.currentQuestion = 0, !.clientTestResults = <<>>]

\* TestContext.tsx 53-57: resetTest
resetTest(f) ==
  [f EXCEPT !.currentQuestion = 0,
            !.clientTestResults = <<>>,
            !.testCompleted = FALSE]

\* TestContext.tsx 45-47: addTestResult
addTestResult(f, result) ==
  [f EXCEPT !.clientTestResults = Append(@, result)]

\* the flow as one record
Flow ==
  [currentTab |-> currentTab,
   currentQuestion |-> currentQuestion,
   clientTestResults |-> clientTestResults,
   testCompleted |-> testCompleted,
   recordingComplete |-> recordingComplete,
   mutations |-> mutations]

\* TestTab.tsx 509: isProcessing of the TestTab that is mounted
isProcessing == \E m \in mutations : m.attached

\* the handler leaves the flow as f; React renders: Home.tsx 32-34 unmounts
\* TestTab when the tab is no longer 'test' (its state is lost, the mutations
\* it started go on), and TestTab.tsx 319-324 clears recordingComplete when
\* currentQuestion has changed
Render(f) ==
  LET leaves == f.currentTab # "test"
      g == IF leaves
           THEN [f EXCEPT !.recordingComplete = FALSE,
                          !.mutations = {[m EXCEPT !.attached = FALSE] :
                                           m \in f.mutations}]
           ELSE IF f.currentQuestion # currentQuestion
           THEN [f EXCEPT !.recordingComplete = FALSE]
           ELSE f
  IN /\ currentTab' = g.currentTab
     /\ currentQuestion' = g.currentQuestion
     /\ clientTestResults' = g.clientTestResults
     /\ testCompleted' = g.testCompleted
     /\ recordingComplete' = g.recordingComplete
     /\ mutations' = g.mutations
     /\ UNCHANGED flowFrame

\* TabNavigation.tsx 11-44: a click on a tab (part_001 72, 279: the Start
\* Test buttons of IntroductionTab set the tab to 'test' as well)
ClickTab(tab) ==
  /\ tab # currentTab
  /\ tab = "results" => testCompleted
  /\ UNCHANGED mutationCount
  /\ Render([Flow EXCEPT !.currentTab = tab])

\* TestTab.tsx 379-421: the user records an answer: Start Recording, Stop
\* Recording, and the recorder delivers its blob
RecordAnswer ==
  /\ currentTab = "test"
  /\ ~recordingComplete
  /\ ~isProcessing
  /\ UNCHANGED mutationCount
  /\ Render([Flow EXCEPT !.recordingComplete = TRUE])

\* TestTab.tsx 665-668: Record again
RecordAgain ==
  /\ currentTab = "test"
  /\ recordingComplete
  /\ ~isProcessing
  /\ UNCHANGED mutationCount
  /\ Render([Flow EXCEPT !.recordingComplete = FALSE])

\* submitAudioMutation.mutate(): the options of the render, with its
\* currentQuestion, go with the mutation
Mutate(f) ==
  [f EXCEPT !.mutations =
              @ \cup {[id |-> mutationCount + 1, q |-> currentQuestion,
                       attached |-> TRUE, stage |-> "submit-audio"]}]

\* TestTab.tsx 714-727: Submit Answer
ClickSubmitAnswer ==
  /\ currentTab = "test"
  /\ recordingComplete
  /\ ~isProcessing
  /\ mutationCount < MaxSubmits
  /\ mutationCount' = mutationCount + 1
  /\ Render(Mutate(Flow))

\* TestTab.tsx 498-515: handleNextQuestion, of Skip Question and of Next
\* Question / Finish Test
handleNextQuestion ==
  /\ currentTab = "test"
  /\ ~isProcessing
  /\ IF recordingComplete
     THEN /\ mutationCount < MaxSubmits
          /\ mutationCount' = mutationCount + 1
          /\ Render(Mutate(Flow))
     ELSE /\ UNCHANGED mutationCount
          /\ IF currentQuestion < NumPrompts - 1
             THEN Render([Flow EXCEPT !.currentQuestion = @ + 1])
             ELSE Render([resetTest(Flow) EXCEPT !.currentTab = "intro"])

\* TestTab.tsx 441-453 and 476-486: onSuccess with an evaluation, for the
\* question 'q' the mutation was started on
onSuccess(f, q) ==
  LET f1 == addTestResult(f, 80)
  IN IF q < NumPrompts - 1
     THEN [f1 EXCEPT !.currentQuestion = q + 1]
     ELSE [f1 EXCEPT !.testCompleted = TRUE, !.currentTab = "results"]

\* TestTab.tsx 432-494: a mutation in flight settles
MutationSettles(m, outcome) ==
  /\ m \in mutations
  /\ UNCHANGED mutationCount
  /\ LET f == [Flow EXCEPT !.mutations = @ \ {m}]
     IN CASE outcome = "error" -> Render(f)
          [] outcome = "transcript" ->
               /\ m.stage = "submit-audio"
               /\ Render([f EXCEPT !.mutations =
                                     @ \cup {[m EXCEPT !.stage = "evaluate"]}])
          [] outcome = "evaluation" -> Render(onSuccess(f, m.q))

\* part_004 88-92: handleRetakeTest of ResultsTab
handleRetakeTest ==
  /\ currentTab = "results"
  /\ UNCHANGED mutationCount
  /\ Render([resetTest(Flow) EXCEPT !.currentTab = "intro"])

NextFlow ==
  \/ \E tab \in {"intro", "test", "results"} : ClickTab(tab)
  \/ RecordAnswer
  \/ RecordAgain
  \/ ClickSubmitAnswer
  \/ handleNextQuestion
  \/ \E id \in 1..MaxSubmits, q \in 0..(NumPrompts - 1), attached \in BOOLEAN,
        stage \in {"submit-audio", "evaluate"}, outcome \in MutationOutcomes :
       MutationSettles([id |-> id, q |-> q, attached |-> attached,
                        stage |-> stage], outcome)
  \/ handleRetakeTest

\* the client's tabs, its test and the mutations it starts
SpecFlow == Init /\ [][NextFlow]_vars

\* C28: in every state of the client's test flow, the Results tab is shown
\* only when the test is completed, and a completed test has a result.
C28_ResultsNeedCompletedTest ==
  /\ currentTab = "results" => testCompleted
  /\ testCompleted => clientTestResults # <<>>

\* the Results tab is shown again for a test taken after a retake, in which
\* a question was skipped
C28_Witness ==
  /\ currentTab = "results"
  /\ testCompleted
  /\ Len(clientTestResults) = 1
  /\ mutationCount = MaxSubmits

\* C29: in every state of the client's test flow, testResults holds no more
\* entries than there are prompts, and currentQuestion is the index of a
\* prompt.
C29_ResultsWithinPrompts ==
  /\ Len(clientTestResults) <= NumPrompts
  /\ currentQuestion \in 0..(NumPrompts - 1)
====
